---- MODULE Spec2Model ----
(***************************************************************************)
(* A model of clihelper/cli.py: the redaction engine                       *)
(* (CLIHelper.redact_sensitive_info), the prompt assembly and API call     *)
(* (analyze_direct_query, analyze_error, call_api), the first-run setup    *)
(* (get_or_setup_api_key, ensure_prompt_command) and main's dispatch.      *)
(*                                                                         *)
(* Text is a sequence of one-character strings, so that the regular        *)
(* expressions of redact_sensitive_info are matched character by           *)
(* character, the way re.sub matches them.                                 *)
(***************************************************************************)
EXTENDS Integers, Sequences, FiniteSets, TLC

(***************************************************************************)
(* Characters and the character classes the patterns use.                  *)
(***************************************************************************)
Digit == {"0", "1", "2", "3", "4", "5", "6", "7", "8", "9"}

LowerSet == {"a", "b", "c", "d", "e", "f", "g", "h", "i", "j", "k", "l", "m",
             "n", "o", "p", "q", "r", "s", "t", "u", "v", "w", "x", "y", "z"}

UpperSet == {"A", "B", "C", "D", "E", "F", "G", "H", "I", "J", "K", "L", "M",
             "N", "O", "P", "Q", "R", "S", "T", "U", "V", "W", "X", "Y", "Z"}

\* str.lower on one character: what flags=re.IGNORECASE compares.
ToLowerMap ==
    ("A" :> "a") @@ ("B" :> "b") @@ ("C" :> "c") @@ ("D" :> "d") @@
    ("E" :> "e") @@ ("F" :> "f") @@ ("G" :> "g") @@ ("H" :> "h") @@
    ("I" :> "i") @@ ("J" :> "j") @@ ("K" :> "k") @@ ("L" :> "l") @@
    ("M" :> "m") @@ ("N" :> "n") @@ ("O" :> "o") @@ ("P" :> "p") @@
    ("Q" :> "q") @@ ("R" :> "r") @@ ("S" :> "s") @@ ("T" :> "t") @@
    ("U" :> "u") @@ ("V" :> "v") @@ ("W" :> "w") @@ ("X" :> "x") @@
    ("Y" :> "y") @@ ("Z" :> "z")

Fold(c) == IF c \in UpperSet THEN ToLowerMap[c] ELSE c

Letter == LowerSet \cup UpperSet

\* [a-zA-Z0-9]; under IGNORECASE also what [0-9A-Z] matches.
Alnum == Letter \cup Digit

\* \s
Space == {" ", "\t", "\n", "\r", "\f"}

\* \w, for \b
WordChar == Alnum \cup {"_"}

Quote == {"\"", "'"}

\* A class is a set of characters, or the complement of one ([^...]).
Cls(set) == [neg |-> FALSE, set |-> set]

NotCls(set) == [neg |-> TRUE, set |-> set]

InClass(c, cls) == (c \in cls.set) # cls.neg

(***************************************************************************)
(* Matching steps.  Each takes a text s and a position i (1-based; 0 means *)
(* "the match has already failed") and gives the position after the step,  *)
(* or 0.  Every quantifier of the patterns below, except the [A-Z ]* of    *)
(* the private-key markers and the [\s\S]+ between them, is followed by    *)
(* something its class excludes, so the greedy choice is the only one a    *)
(* backtracking matcher can succeed with.                                  *)
(***************************************************************************)

\* The longest run of class characters from i: the position after it.
RunEnd(s, i, cls) ==
    CHOOSE e \in i..(Len(s) + 1) :
        /\ e = Len(s) + 1 \/ ~InClass(s[e], cls)
        /\ \A k \in i..(e - 1) : InClass(s[k], cls)

\* A literal, compared case-insensitively.
Lit(s, i, lit) ==
    IF i = 0 \/ i + Len(lit) - 1 > Len(s) THEN 0
    ELSE IF \A k \in 1..Len(lit) : Fold(s[i + k - 1]) = Fold(lit[k])
         THEN i + Len(lit) ELSE 0

\* [class]?
Opt(s, i, cls) ==
    IF i = 0 THEN 0
    ELSE IF i <= Len(s) /\ InClass(s[i], cls) THEN i + 1 ELSE i

\* [class]
One(s, i, cls) ==
    IF i = 0 THEN 0
    ELSE IF i <= Len(s) /\ InClass(s[i], cls) THEN i + 1 ELSE 0

\* [class]*
Star(s, i, cls) == IF i = 0 THEN 0 ELSE RunEnd(s, i, cls)

\* [class]{n,}
AtLeast(s, i, cls, n) ==
    IF i = 0 THEN 0
    ELSE LET e == RunEnd(s, i, cls) IN IF e - i >= n THEN e ELSE 0

\* [class]{n}
Exactly(s, i, cls, n) ==
    IF i = 0 THEN 0
    ELSE LET e == RunEnd(s, i, cls) IN IF e - i >= n THEN i + n ELSE 0

\* \b at position i: exactly one of s[i-1], s[i] is a word character.
WordBoundary(s, i) ==
    LET before == i > 1 /\ i - 1 <= Len(s) /\ s[i - 1] \in WordChar
        after  == i >= 1 /\ i <= Len(s) /\ s[i] \in WordChar
    IN  before # after

Slice(s, i, e) == SubSeq(s, i, e - 1)

\* F of the value of v, v evaluated once (a local name for a value).
Bind(v, F(_)) == CHOOSE r \in {F(x) : x \in {v}} : TRUE

(***************************************************************************)
(* The literals of the patterns and of the replacements                    *)
(* (redact_sensitive_info, the patterns list).                             *)
(***************************************************************************)
LitSk == <<"s", "k", "-">>

LitApi == <<"a", "p", "i">>

LitKey == <<"k", "e", "y">>

LitToken == <<"t", "o", "k", "e", "n">>

LitBearer == <<"b", "e", "a", "r", "e", "r">>

LitAkia == <<"A", "K", "I", "A">>

LitAwsSecret ==
    <<"a", "w", "s", "_", "s", "e", "c", "r", "e", "t", "_", "a", "c", "c", "e", "s", "s", "_", "k", "e", "y">>

LitPassword == <<"p", "a", "s", "s", "w", "o", "r", "d">>

LitPasswd == <<"p", "a", "s", "s", "w", "d">>

LitPwd == <<"p", "w", "d">>

LitSchemeSep == <<":", "/", "/">>

LitSshpass == <<"s", "s", "h", "p", "a", "s", "s">>

LitDashP == <<"-", "p">>

LitDashes == <<"-", "-", "-", "-", "-">>

LitBegin == <<"B", "E", "G", "I", "N", " ">>

LitEnd == <<"E", "N", "D", " ">>

LitPrivateKey ==
    <<"P", "R", "I", "V", "A", "T", "E", " ", "K", "E", "Y", "-", "-", "-", "-", "-">>

REDACTED == <<"R", "E", "D", "A", "C", "T", "E", "D">>

SkRedacted == <<"s", "k", "-", "R", "E", "D", "A", "C", "T", "E", "D">>

AwsKeyRedacted ==
    <<"A", "W", "S", "_", "K", "E", "Y", "_", "R", "E", "D", "A", "C", "T", "E", "D">>

CardRedacted ==
    <<"C", "A", "R", "D", "_", "R", "E", "D", "A", "C", "T", "E", "D">>

PrivateKeyPlaceholder ==
    <<"-", "-", "-", "-", "-", "B", "E", "G", "I", "N", " ", "P", "R", "I", "V", "A", "T", "E", " ", "K", "E", "Y", "-", "-", "-", "-", "-", "\n">>
    \o <<"R", "E", "D", "A", "C", "T", "E", "D", "\n">>
    \o <<"-", "-", "-", "-", "-", "E", "N", "D", " ", "P", "R", "I", "V", "A", "T", "E", " ", "K", "E", "Y", "-", "-", "-", "-", "-">>

\* The numbers in the patterns' quantifiers.
SkMinLen == 20

ApiKeyMinLen == 20

TokenMinLen == 20

BearerMinLen == 20

AkiaSuffixLen == 16

AwsSecretLen == 40

CardGroupLen == 4

CardLeadingGroups == 3

(***************************************************************************)
(* The thirteen patterns.  Each matcher tries the pattern at position i of *)
(* s and gives [g, e]: e the position after the match (0: no match at i),  *)
(* g the position after group 1 (what \1 in the replacement keeps).        *)
(***************************************************************************)
Match(g, e) == [g |-> IF e = 0 THEN 0 ELSE g, e |-> e]

\* ["']?\s*[:=]\s*["']?  -- the separator of the key=value patterns.
Assign(s, i) ==
    Opt(s, Star(s, One(s, Star(s, Opt(s, i, Cls(Quote)), Cls(Space)),
                       Cls({":", "="})), Cls(Space)), Cls(Quote))

\* SkMatch with the quantifier off by one: {21,}
SkMatchLonger(s, i) ==
    LET e == AtLeast(s, Lit(s, i, LitSk), Cls(Alnum), SkMinLen + 1)
    IN  Match(e, e)

\* (sk-[a-zA-Z0-9]{20,})
SkMatch(s, i) ==
    LET e == AtLeast(s, Lit(s, i, LitSk), Cls(Alnum), SkMinLen)
    IN  Match(e, e)

\* (api[_-]?key["']?\s*[:=]\s*["']?)([a-zA-Z0-9_\-]{20,})
ApiKeyMatch(s, i) ==
    LET k == Lit(s, Opt(s, Lit(s, i, LitApi), Cls({"_", "-"})), LitKey)
        g == Assign(s, k)
    IN  Match(g, AtLeast(s, g, Cls(Alnum \cup {"_", "-"}), ApiKeyMinLen))

\* (token["']?\s*[:=]\s*["']?)([a-zA-Z0-9_\-]{20,})
TokenMatch(s, i) ==
    LET g == Assign(s, Lit(s, i, LitToken))
    IN  Match(g, AtLeast(s, g, Cls(Alnum \cup {"_", "-"}), TokenMinLen))

\* (bearer\s+)([a-zA-Z0-9_\-\.]{20,})
BearerMatch(s, i) ==
    LET g == AtLeast(s, Lit(s, i, LitBearer), Cls(Space), 1)
    IN  Match(g, AtLeast(s, g, Cls(Alnum \cup {"_", "-", "."}), BearerMinLen))

\* (AKIA[0-9A-Z]{16})
AkiaMatch(s, i) ==
    LET e == Exactly(s, Lit(s, i, LitAkia), Cls(Alnum), AkiaSuffixLen)
    IN  Match(e, e)

\* (aws_secret_access_key["']?\s*[:=]\s*["']?)([a-zA-Z0-9/+=]{40})
AwsSecretMatch(s, i) ==
    LET g == Assign(s, Lit(s, i, LitAwsSecret))
    IN  Match(g, Exactly(s, g, Cls(Alnum \cup {"/", "+", "="}), AwsSecretLen))

\* (<key>["']?\s*[:=]\s*["']?)([^\s'"]+) for password, passwd and pwd
PasswordLikeMatch(s, i, key) ==
    LET g == Assign(s, Lit(s, i, key))
    IN  Match(g, AtLeast(s, g, NotCls(Space \cup Quote), 1))

PasswordMatch(s, i) == PasswordLikeMatch(s, i, LitPassword)

PasswdMatch(s, i) == PasswordLikeMatch(s, i, LitPasswd)

PwdMatch(s, i) == PasswordLikeMatch(s, i, LitPwd)

\* (://[^:]+:)([^@]+)(@)
UrlMatch(s, i) ==
    LET g == One(s, AtLeast(s, Lit(s, i, LitSchemeSep), NotCls({":"}), 1),
                 Cls({":"}))
    IN  Match(g, One(s, AtLeast(s, g, NotCls({"@"}), 1), Cls({"@"})))

\* (sshpass\s+-p\s+)([^\s]+)
SshpassMatch(s, i) ==
    LET g == AtLeast(s, Lit(s, AtLeast(s, Lit(s, i, LitSshpass), Cls(Space), 1),
                            LitDashP), Cls(Space), 1)
    IN  Match(g, AtLeast(s, g, NotCls(Space), 1))

\* ([0-9]{4}[\s\-]?){n} from i
RECURSIVE CardGroups(_, _, _)
CardGroups(s, i, n) ==
    IF n = 0 THEN i
    ELSE CardGroups(s, Opt(s, Exactly(s, i, Cls(Digit), CardGroupLen),
                           Cls(Space \cup {"-"})), n - 1)

\* CardMatch without the closing \b
CardMatchOpenEnded(s, i) ==
    LET e == Exactly(s, CardGroups(s, i, CardLeadingGroups), Cls(Digit),
                     CardGroupLen)
    IN  IF e # 0 /\ WordBoundary(s, i) THEN Match(i, e) ELSE Match(0, 0)

\* \b([0-9]{4}[\s\-]?){3}[0-9]{4}\b
CardMatch(s, i) ==
    LET e == Exactly(s, CardGroups(s, i, CardLeadingGroups), Cls(Digit),
                     CardGroupLen)
    IN  IF e # 0 /\ WordBoundary(s, i) /\ WordBoundary(s, e)
        THEN Match(i, e) ELSE Match(0, 0)

\* -----<word> [A-Z ]*PRIVATE KEY-----  at i (word is "BEGIN " or "END ").
\* [A-Z ]* is greedy and gives back what PRIVATE KEY----- needs: the run of
\* letters and spaces must end with PRIVATE KEY, the dashes right after it.
PemMarker(s, i, word) ==
    LET a == Lit(s, Lit(s, i, LitDashes), word)
        r == Star(s, a, Cls(Letter \cup {" "}))
        p == r - (Len(LitPrivateKey) - Len(LitDashes))
    IN  IF a # 0 /\ p >= a THEN Lit(s, p, LitPrivateKey) ELSE 0

\* (-----BEGIN [A-Z ]*PRIVATE KEY-----)[\s\S]+(-----END [A-Z ]*PRIVATE KEY-----)
\* [\s\S]+ is greedy: the match runs to the last END marker of the text.
PrivateKeyMatch(s, i) ==
    LET b    == PemMarker(s, i, LitBegin)
        ends == IF b = 0 THEN {}
                ELSE {q \in (b + 1)..Len(s) : PemMarker(s, q, LitEnd) # 0}
    IN  IF ends = {} THEN Match(0, 0)
        ELSE LET q == CHOOSE x \in ends : \A y \in ends : y <= x
             IN  Match(b, PemMarker(s, q, LitEnd))

\* patterns: the (pattern, replacement) list, in the order of the source.
patterns ==
    << "sk", "api_key", "token", "bearer", "akia", "aws_secret",
       "password", "passwd", "pwd", "url", "sshpass", "card", "private_key" >>

MatchAt(p, s, i) ==
    CASE p = "sk"          -> SkMatch(s, i)
      [] p = "api_key"     -> ApiKeyMatch(s, i)
      [] p = "token"       -> TokenMatch(s, i)
      [] p = "bearer"      -> BearerMatch(s, i)
      [] p = "akia"        -> AkiaMatch(s, i)
      [] p = "aws_secret"  -> AwsSecretMatch(s, i)
      [] p = "password"    -> PasswordMatch(s, i)
      [] p = "passwd"      -> PasswdMatch(s, i)
      [] p = "pwd"         -> PwdMatch(s, i)
      [] p = "url"         -> UrlMatch(s, i)
      [] p = "sshpass"     -> SshpassMatch(s, i)
      [] p = "card"        -> CardMatch(s, i)
      [] p = "private_key" -> PrivateKeyMatch(s, i)

\* The replacement of the match [i, m.e) of pattern p: the second members of
\* the patterns list, \1 being Slice(s, i, m.g) and \3 of the URL pattern the
\* "@" that ends the match.
Replacement(p, s, i, m) ==
    CASE p = "sk"          -> SkRedacted
      [] p = "akia"        -> AwsKeyRedacted
      [] p = "card"        -> CardRedacted
      [] p = "private_key" -> PrivateKeyPlaceholder
      [] p = "url"         -> Slice(s, i, m.g) \o REDACTED \o Slice(s, m.e - 1, m.e)
      [] OTHER             -> Slice(s, i, m.g) \o REDACTED

\* The first position from i where pattern p matches; Len(s) + 1 if none.
NextMatch(p, s, i) ==
    CHOOSE j \in i..(Len(s) + 1) :
        /\ j = Len(s) + 1 \/ MatchAt(p, s, j).e # 0
        /\ \A k \in i..(j - 1) : MatchAt(p, s, k).e = 0

\* re.sub(pattern, replacement, s) from position i: the text up to the
\* leftmost match, the replacement of the match, then on from its end.
RECURSIVE SubFrom(_, _, _)
SubFrom(p, s, i) ==
    Bind(NextMatch(p, s, i), LAMBDA j :
        IF j > Len(s) THEN Slice(s, i, j)
        ELSE Bind(MatchAt(p, s, j), LAMBDA m :
                Slice(s, i, j) \o Replacement(p, s, j, m) \o SubFrom(p, s, m.e)))

Sub(p, s) == Bind(s, LAMBDA t : SubFrom(p, t, 1))

\* The loop of redact_sensitive_info over the first n patterns.
RECURSIVE ApplyPatterns(_, _)
ApplyPatterns(text, n) ==
    IF n = 0 THEN text ELSE Sub(patterns[n], ApplyPatterns(text, n - 1))

redact_sensitive_info(text) == ApplyPatterns(text, Len(patterns))

(***************************************************************************)
(* Inputs of the redaction checks: texts put together from fragments that  *)
(* the patterns match, nearly match, or that join two matches.             *)
(***************************************************************************)
FragSkToken ==
    <<"s", "k", "-", "a", "1", "b", "2", "c", "3", "d", "4", "e", "5", "f", "6", "g", "7", "h", "8", "i", "9", "j", "0">>

FragSkUpper ==
    <<"S", "K", "-", "A", "1", "B", "2", "C", "3", "D", "4", "E", "5", "F", "6", "G", "7", "H", "8", "I", "9", "J", "0">>

FragSkShort ==
    <<"s", "k", "-", "a", "1", "b", "2", "c", "3", "d", "4", "e", "5", "f", "6", "g", "7", "h", "8", "i", "9", "j">>

FragX ==
    <<"x">>

FragPassword ==
    <<"p", "a", "s", "s", "w", "o", "r", "d", "=">>

FragUrlUser ==
    <<":", "/", "/", "u", ":">>

FragAtHost ==
    <<"@", "h">>

FragSpace ==
    <<" ">>

FragToken ==
    <<"t", "o", "k", "e", "n", "=">>

FragWord ==
    <<"a", "b", "c", "d", "e", "f", "g", "-">>

FragCard ==
    <<"1", "2", "3", "4", " ", "1", "2", "3", "4", " ", "1", "2", "3", "4", " ", "1", "2", "3", "4">>

FragQuoted ==
    <<"h", "u", "n", "t", "e", "r", "\"", "2">>

Fragments ==
    {FragSkToken, FragSkUpper, FragSkShort, FragX, FragPassword, FragUrlUser, FragAtHost, FragSpace, FragToken, FragWord, FragCard, FragQuoted}

FragPasswordColon ==
    <<"p", "a", "s", "s", "w", "o", "r", "d", ":", " ">>

FragBegin ==
    <<"-", "-", "-", "-", "-", "B", "E", "G", "I", "N", " ", "R", "S", "A", " ", "P", "R", "I", "V", "A", "T", "E", " ", "K", "E", "Y", "-", "-", "-", "-", "-", "\n">>

FragBeginPlain ==
    <<"-", "-", "-", "-", "-", "B", "E", "G", "I", "N", " ", "P", "R", "I", "V", "A", "T", "E", " ", "K", "E", "Y", "-", "-", "-", "-", "-", "\n">>

FragKeyBody ==
    <<"M", "I", "I", "E", "o", "w", "I", "B", "A", "A", "K", "C", "A", "Q", "E", "A", "\n">>

FragKeyBodyLines ==
    <<"M", "I", "I", "E", "o", "w", "\n", "I", "B", "A", "A", "K", "C", "A", "Q", "\n", "E", "A", "x", "9", "\n">>

FragEnd ==
    <<"-", "-", "-", "-", "-", "E", "N", "D", " ", "R", "S", "A", " ", "P", "R", "I", "V", "A", "T", "E", " ", "K", "E", "Y", "-", "-", "-", "-", "-", "\n">>

\* Texts around a PEM private-key block: something before it, a BEGIN line,
\* the key material, an END line, something after it.
PemPrefixes == {<<>>, FragPasswordColon, FragPassword, FragX}

PemBegins == {FragBegin, FragBeginPlain}

PemBodies == {FragKeyBody, FragKeyBodyLines}

PemSuffixes == {<<>>, FragX, FragAtHost, FragBegin \o FragKeyBody \o FragEnd}

PemTexts ==
    {pre \o b \o body \o FragEnd \o suf :
        pre \in PemPrefixes, b \in PemBegins, body \in PemBodies,
        suf \in PemSuffixes}

MaxParts == 3

RECURSIVE Concat(_)
Concat(parts) ==
    IF parts = <<>> THEN <<>> ELSE Head(parts) \o Concat(Tail(parts))

TextsOf(frags, n) ==
    {Concat(parts) : parts \in UNION {[1..k -> frags] : k \in 1..n}}

\* The redaction checks: a text, redact_sensitive_info of it, and of that.
VARIABLES text, result, second, phase

\* The files under the home directory, which outlive an invocation:
\* ~/.clihelper_key, ~/.clihelper_prompt_command_configured (its content, or
\* "absent"), and how many times the PROMPT_COMMAND lines were appended to
\* ~/.bashrc.
VARIABLES keyFile, marker, bashrcAppends

\* One invocation of main: where it is, its command line and standard input,
\* the prompt handed to call_api, what failed, how it ended.
VARIABLES pc, runs, asked, inv, prompt, setupFailure, apiFailure, printed,
          exitCode, answer

redactVars == <<text, result, second, phase>>

fileVars == <<keyFile, marker, bashrcAppends>>

mainVars == <<pc, runs, asked, inv, prompt, setupFailure, apiFailure, printed,
              exitCode, answer>>

vars == <<redactVars, fileVars, mainVars>>

NoInvocation ==
    [debug |-> FALSE, args |-> <<>>, isatty |-> TRUE, stdin |-> <<>>,
     history |-> [exists |-> FALSE, readable |-> FALSE, lines |-> <<>>]]

NoPrompt == [mode |-> "none", history |-> <<>>, body |-> <<>>, context |-> <<>>]

\* No invocation of main is under way.
MainIdle ==
    /\ keyFile = "absent"
    /\ marker = "absent"
    /\ bashrcAppends = 0
    /\ pc = "idle"
    /\ runs = 0
    /\ asked = 0
    /\ inv = NoInvocation
    /\ prompt = NoPrompt
    /\ setupFailure = "none"
    /\ apiFailure = "none"
    /\ printed = "nothing"
    /\ exitCode = 0
    /\ answer = <<>>

InitRedact ==
    /\ text \in TextsOf(Fragments, MaxParts) \cup PemTexts
    /\ result = <<>>
    /\ second = <<>>
    /\ phase = "input"
    /\ MainIdle

\* result = redact_sensitive_info(text)
Redact ==
    /\ phase = "input"
    /\ result' = redact_sensitive_info(text)
    /\ phase' = "redacted"
    /\ UNCHANGED <<text, second, fileVars, mainVars>>

\* redact_sensitive_info applied to its own output
RedactAgain ==
    /\ phase = "redacted"
    /\ second' = redact_sensitive_info(result)
    /\ phase' = "twice"
    /\ UNCHANGED <<text, result, fileVars, mainVars>>

NextRedact == Redact \/ RedactAgain

SpecRedact == InitRedact /\ [][NextRedact]_vars

(***************************************************************************)
(* main and the CLIHelper it constructs.                                   *)
(***************************************************************************)
DebugFlag == <<"-", "-", "d", "e", "b", "u", "g">>

HistoryHeader ==
    <<"R", "e", "c", "e", "n", "t", " ", "c", "o", "m", "m", "a", "n", "d", " ", "h", "i", "s", "t", "o", "r", "y", ":", "\n">>

NoHistoryText ==
    <<"N", "o", " ", "B", "a", "s", "h", " ", "h", "i", "s", "t", "o", "r", "y", " ", "f", "o", "u", "n", "d", ".">>

HistoryErrorText ==
    <<"C", "o", "u", "l", "d", " ", "n", "o", "t", " ", "r", "e", "t", "r", "i", "e", "v", "e", " ", "c", "o", "m", "m", "a", "n", "d", " ", "h", "i", "s", "t", "o", "r", "y", ":", " ">>

ApiErrorText ==
    <<"E", "r", "r", "o", "r", " ", "c", "a", "l", "l", "i", "n", "g", " ", "C", "l", "a", "u", "d", "e", " ", "A", "P", "I", ":", " ">>

\* n=10 of get_recent_history_with_context
HistoryLines == 10

\* sep.join(parts)
RECURSIVE JoinWith(_, _)
JoinWith(parts, sep) ==
    IF parts = <<>> THEN <<>>
    ELSE IF Len(parts) = 1 THEN parts[1]
    ELSE parts[1] \o sep \o JoinWith(Tail(parts), sep)

\* lines[-n:]
LastLines(lines, n) ==
    IF Len(lines) <= n THEN lines
    ELSE SubSeq(lines, Len(lines) - n + 1, Len(lines))

\* get_recent_history_with_context on a ~/.bash_history that is absent,
\* cannot be read, or holds these lines.
get_recent_history_with_context(h) ==
    IF ~h.exists THEN NoHistoryText
    ELSE IF ~h.readable THEN HistoryErrorText
    ELSE redact_sensitive_info(
            HistoryHeader \o JoinWith(LastLines(h.lines, HistoryLines), <<"\n">>))

\* What the command lines, the piped input and the history are drawn from.
ArgMysql == <<"m", "y", "s", "q", "l">>

ArgPassword == <<"-", "-", "p", "a", "s", "s", "w", "o", "r", "d", "=", "h", "u", "n", "t", "e", "r", "2">>

ArgWords == {DebugFlag, ArgMysql, ArgPassword}

MaxArgs == 2

StdinTexts ==
    {<<"l", "s", ":", " ", "b", "a", "d", " ", "o", "p", "t", "i", "o", "n", "\n">>,
     <<"d", "e", "n", "i", "e", "d", ":", " ", "p", "w", "d", "=", "h", "u", "n", "t", "e", "r", "2", "\n">>}

HistoryLine == <<"e", "x", "p", "o", "r", "t", " ", "T", "O", "K", "E", "N", "=", "x", " ", "p", "w", "d", "=", "h", "u", "n", "t", "e", "r", "2">>

HistoryFiles ==
    {[exists |-> FALSE, readable |-> FALSE, lines |-> <<>>],
     [exists |-> TRUE, readable |-> FALSE, lines |-> <<>>],
     [exists |-> TRUE, readable |-> TRUE, lines |-> <<HistoryLine>>],
     [exists |-> TRUE, readable |-> TRUE,
      lines |-> [k \in 1..(HistoryLines + 1) |-> IF k = 1 THEN HistoryLine ELSE ArgMysql]]}

ApiResponses == {<<>>, <<"$", " ", "l", "s", " ", "-", "l", "a">>}

ApiErrors == {<<>>, <<"t", "i", "m", "e", "o", "u", "t">>}

MaxRuns == 2

Init ==
    /\ text = <<>>
    /\ result = <<>>
    /\ second = <<>>
    /\ phase = "main"
    /\ MainIdle

\* An uncaught exception: the traceback, exit status 1.
Raise ==
    /\ pc' = "exited"
    /\ printed' = "traceback"
    /\ exitCode' = 1

\* main, up to the construction of CLIHelper: the --debug flag is taken out
\* of the arguments.
Main(argv, isatty, stdin, history) ==
    /\ pc \in {"idle", "exited"}
    /\ runs < MaxRuns
    /\ runs' = runs + 1
    /\ inv' = [debug   |-> \E k \in 1..Len(argv) : argv[k] = DebugFlag,
               args    |-> SelectSeq(argv, LAMBDA a : a # DebugFlag),
               isatty  |-> isatty,
               stdin   |-> stdin,
               history |-> history]
    /\ pc' = "get_or_setup_api_key"
    /\ prompt' = NoPrompt
    /\ setupFailure' = "none"
    /\ apiFailure' = "none"
    /\ printed' = "nothing"
    /\ exitCode' = 0
    /\ answer' = <<>>
    /\ UNCHANGED <<redactVars, fileVars, asked>>

\* CLIHelper.get_or_setup_api_key: the key file, else the environment, else
\* the first-time setup, whose write_text and chmod are not guarded.
GetOrSetupApiKey ==
    /\ pc = "get_or_setup_api_key"
    /\ \/ /\ keyFile = "present"
          /\ pc' = "ensure_prompt_command"
          /\ UNCHANGED <<keyFile, setupFailure, printed, exitCode>>
       \/ /\ keyFile = "absent"
          /\ \E inEnvironment, writeOk, chmodOk \in BOOLEAN :
                IF inEnvironment
                THEN /\ pc' = "ensure_prompt_command"
                     /\ UNCHANGED <<keyFile, setupFailure, printed, exitCode>>
                ELSE IF ~writeOk
                THEN /\ setupFailure' = "key_write"
                     /\ Raise
                     /\ UNCHANGED keyFile
                ELSE IF ~chmodOk
                THEN /\ keyFile' = "present"
                     /\ setupFailure' = "key_chmod"
                     /\ Raise
                ELSE /\ keyFile' = "present"
                     /\ pc' = "ensure_prompt_command"
                     /\ UNCHANGED <<setupFailure, printed, exitCode>>
    /\ UNCHANGED <<redactVars, marker, bashrcAppends, runs, asked, inv, prompt,
                   apiFailure, answer>>

\* marker.write_text(content), outside any try: it writes, or raises.
WriteMarker(content, ok) ==
    IF ok
    THEN /\ marker' = content
         /\ pc' = "dispatch"
         /\ UNCHANGED <<printed, exitCode>>
    ELSE /\ UNCHANGED marker
         /\ Raise

\* CLIHelper.ensure_prompt_command
EnsurePromptCommand ==
    /\ pc = "ensure_prompt_command"
    /\ \/ /\ marker # "absent"
          /\ pc' = "dispatch"
          /\ UNCHANGED <<marker, bashrcAppends, asked, setupFailure, printed,
                         exitCode>>
       \/ /\ marker = "absent"
          /\ \E bash, yes, appendOk, markerOk, failedOk \in BOOLEAN :
                IF ~bash
                THEN /\ WriteMarker("skipped (non-bash shell)", markerOk)
                     /\ setupFailure' = IF markerOk THEN "none" ELSE "marker_write"
                     /\ UNCHANGED <<bashrcAppends, asked>>
                ELSE /\ asked' = asked + 1
                     /\ IF ~yes
                        THEN /\ WriteMarker("skipped", markerOk)
                             /\ setupFailure' =
                                    IF markerOk THEN "none" ELSE "marker_write"
                             /\ UNCHANGED bashrcAppends
                        ELSE IF appendOk /\ markerOk
                        THEN /\ bashrcAppends' = bashrcAppends + 1
                             /\ WriteMarker("enabled", TRUE)
                             /\ setupFailure' = "none"
                        ELSE \* the except branch: the append or the write of
                             \* "enabled" raised inside the try
                             /\ bashrcAppends' =
                                    IF appendOk THEN bashrcAppends + 1
                                    ELSE bashrcAppends
                             /\ WriteMarker("failed", failedOk)
                             /\ setupFailure' =
                                    IF ~appendOk /\ failedOk THEN "bashrc_append"
                                    ELSE "marker_write"
    /\ UNCHANGED <<redactVars, keyFile, runs, inv, prompt, apiFailure, answer>>

\* main with a terminal on stdin and no arguments: the usage, sys.exit(0).
Usage ==
    /\ pc = "dispatch"
    /\ inv.isatty
    /\ inv.args = <<>>
    /\ printed' = "usage"
    /\ exitCode' = 0
    /\ pc' = "exited"
    /\ UNCHANGED <<redactVars, fileVars, runs, asked, inv, prompt, setupFailure,
                   apiFailure, answer>>

\* main's direct query mode and CLIHelper.analyze_direct_query, up to the
\* call of call_api: the query goes into the prompt as it was typed.
AnalyzeDirectQuery ==
    /\ pc = "dispatch"
    /\ inv.isatty
    /\ inv.args # <<>>
    /\ prompt' = [mode    |-> "direct",
                  history |-> get_recent_history_with_context(inv.history),
                  body    |-> JoinWith(inv.args, <<" ">>),
                  context |-> <<>>]
    /\ pc' = "call_api"
    /\ UNCHANGED <<redactVars, fileVars, runs, asked, inv, setupFailure,
                   apiFailure, printed, exitCode, answer>>

\* main's piped mode and CLIHelper.analyze_error, up to the call of call_api.
AnalyzeError ==
    /\ pc = "dispatch"
    /\ ~inv.isatty
    /\ prompt' = [mode    |-> "error",
                  history |-> get_recent_history_with_context(inv.history),
                  body    |-> redact_sensitive_info(inv.stdin),
                  context |-> redact_sensitive_info(JoinWith(inv.args, <<" ">>))]
    /\ pc' = "call_api"
    /\ UNCHANGED <<redactVars, fileVars, runs, asked, inv, setupFailure,
                   apiFailure, printed, exitCode, answer>>

\* CLIHelper.call_api and the print of its result by main.  The client is
\* constructed before the try; the request is inside it.
CallApi ==
    /\ pc = "call_api"
    /\ \E constructOk, requestOk \in BOOLEAN :
          IF ~constructOk
          THEN /\ apiFailure' = "construct"
               /\ Raise
               /\ UNCHANGED answer
          ELSE /\ \/ /\ requestOk
                     /\ apiFailure' = "none"
                     /\ answer' \in ApiResponses
                  \/ /\ ~requestOk
                     /\ apiFailure' = "request"
                     /\ \E e \in ApiErrors : answer' = ApiErrorText \o e
               /\ printed' = IF inv.debug THEN "prompt and answer" ELSE "answer"
               /\ exitCode' = 0
               /\ pc' = "exited"
    /\ UNCHANGED <<redactVars, fileVars, runs, asked, inv, prompt, setupFailure>>

ArgvChoices == UNION {[1..n -> ArgWords] : n \in 0..MaxArgs}

Next ==
    \/ \E argv \in ArgvChoices, history \in HistoryFiles :
          \/ Main(argv, TRUE, <<>>, history)
          \/ \E stdin \in StdinTexts : Main(argv, FALSE, stdin, history)
    \/ GetOrSetupApiKey
    \/ EnsurePromptCommand
    \/ Usage
    \/ AnalyzeDirectQuery
    \/ AnalyzeError
    \/ CallApi

Spec == Init /\ [][Next]_vars

(***************************************************************************)
(* Properties of main, the prompt and the first-run setup.                 *)
(***************************************************************************)

\* What the user typed or piped for the prompt's body and context.
RawBody == IF inv.isatty THEN JoinWith(inv.args, <<" ">>) ELSE inv.stdin

RawContext == IF inv.isatty THEN <<>> ELSE JoinWith(inv.args, <<" ">>)

RawHistory ==
    HistoryHeader \o JoinWith(LastLines(inv.history.lines, HistoryLines), <<"\n">>)

\* C1: in both modes, every piece of user text in the prompt handed to
\* call_api (query or error text, context, history lines) is the output of
\* redact_sensitive_info on what the user gave.
C1_PromptSanitized ==
    pc = "call_api" =>
        /\ prompt.body = redact_sensitive_info(RawBody)
        /\ prompt.context = redact_sensitive_info(RawContext)
        /\ (inv.history.exists /\ inv.history.readable)
              => prompt.history = redact_sensitive_info(RawHistory)

\* C3: whatever fails in call_api, the construction of the client included,
\* no exception leaves it: main prints a non-empty text describing the failure
\* as the answer and the process exits with status 0.
C3_ApiFailureIsAnswered ==
    (pc = "exited" /\ apiFailure # "none")
        => /\ printed \in {"answer", "prompt and answer"}
           /\ Len(answer) > 0
           /\ exitCode = 0

\* C9: a first-run configuration failure (writing or chmod-ing the key file,
\* appending to ~/.bashrc, writing the marker file) never raises out of the
\* construction of CLIHelper: the invocation goes on to its final print.
C9_SetupFailureSurvived ==
    setupFailure # "none" =>
        /\ printed # "traceback"
        /\ pc = "exited" => printed \in {"usage", "answer", "prompt and answer"}

\* C10: over any sequence of invocations the PROMPT_COMMAND lines are appended
\* at most once, the question is asked at most once, and once the marker file
\* exists neither ~/.bashrc nor the marker is written again, a failed write
\* during the setup included.
C10_SetupAtMostOnce ==
    [][/\ bashrcAppends' <= 1
       /\ asked' <= 1
       /\ marker # "absent" => (marker' = marker /\ bashrcAppends' = bashrcAppends)
      ]_vars

(***************************************************************************)
(* Properties of redact_sensitive_info.                                    *)
(***************************************************************************)
Contains(s, sub) ==
    \E i \in 1..(Len(s) - Len(sub) + 1) : Slice(s, i, i + Len(sub)) = sub

HasMatch(p, s) == \E i \in 1..Len(s) : MatchAt(p, s, i).e # 0

PatternIndex(p) == CHOOSE k \in 1..Len(patterns) : patterns[k] = p

\* C2: redact_sensitive_info is idempotent: applying it to its own output
\* changes nothing.
C2_Idempotent == phase = "twice" => second = result

\* The key material of the texts above: the lines between BEGIN and END.
HasKeyMaterial(s) == \E body \in PemBodies : Contains(s, body)

\* C4: for every input containing a PEM private-key block, the output holds
\* the fixed three-line placeholder and none of the key material, whatever the
\* earlier patterns did to the block.
C4_PrivateKeyCollapsed ==
    (phase = "redacted" /\ HasMatch("private_key", text))
        => /\ Contains(result, PrivateKeyPlaceholder)
           /\ ~HasKeyMaterial(result)

GenericKeyValue == {"api_key", "token", "password", "passwd", "pwd"}

\* The text the private-key pattern is applied to: the output of the patterns
\* before it in the list.
TextBeforePrivateKey(s) == ApplyPatterns(s, PatternIndex("private_key") - 1)

\* The region of s the private-key pattern matches.
PrivateKeyRegion(s) ==
    LET i == NextMatch("private_key", s, 1)
    IN  Slice(s, i, MatchAt("private_key", s, i).e)

\* C5: the private-key pattern is applied before the generic key=value
\* patterns, so the region it matches is never partly rewritten by one of
\* them before it runs.
C5_SpecificBeforeGeneric ==
    (/\ phase = "redacted"
     /\ HasMatch("private_key", text)
     /\ \E g \in GenericKeyValue : HasMatch(g, text))
        => /\ \A g \in GenericKeyValue :
                PatternIndex("private_key") < PatternIndex(g)
           /\ Contains(TextBeforePrivateKey(text), PrivateKeyRegion(text))

\* An occurrence of password=<value> at i, the value running to the next
\* whitespace; its end.
PasswordValueEnd(s, i) == RunEnd(s, i + Len(FragPassword), NotCls(Space))

IsPasswordOccurrence(s, i) ==
    /\ i + Len(FragPassword) <= Len(s)
    /\ Slice(s, i, i + Len(FragPassword)) = FragPassword
    /\ s[i + Len(FragPassword)] \notin Space

\* password=REDACTED, with nothing of the value left after it
PasswordRedactedAt(s, k) ==
    LET e == k + Len(FragPassword) + Len(REDACTED)
    IN  /\ e <= Len(s) + 1
        /\ Slice(s, k, e) = FragPassword \o REDACTED
        /\ e = Len(s) + 1 \/ s[e] \in Space

\* C6: for every occurrence of password=<value>, the value without
\* whitespace, the output of the full pattern list keeps "password" and "="
\* verbatim there and has REDACTED in place of the value.
C6_PasswordKeyKept ==
    (phase = "redacted" /\ \E i \in 1..Len(text) : IsPasswordOccurrence(text, i))
        => \E k \in 1..Len(result) : PasswordRedactedAt(result, k)

\* sk- followed by at least 20 alphanumeric characters at i; the token.
IsSkTokenAt(s, i) ==
    /\ i + Len(LitSk) <= Len(s)
    /\ Slice(s, i, i + Len(LitSk)) = LitSk
    /\ RunEnd(s, i + Len(LitSk), Cls(Alnum)) - (i + Len(LitSk)) >= 20

SkTokenAt(s, i) == Slice(s, i, RunEnd(s, i + Len(LitSk), Cls(Alnum)))

\* C7 as stated: for every input holding sk- and at least 20 alphanumeric
\* characters, wherever it stands, the output holds sk-REDACTED and not the
\* token.
C7_SentinelAlwaysPresent ==
    phase = "redacted" =>
        \A i \in 1..Len(text) : IsSkTokenAt(text, i) =>
            /\ Contains(result, SkRedacted)
            /\ ~Contains(result, SkTokenAt(text, i))

\* C7, amended: the output never holds the token; the sk- pattern puts
\* sk-REDACTED in its place, and the output holds sk-REDACTED, or REDACTED
\* where a later pattern replaced the text that held the sentinel.
C7_TokenNeverSurvives ==
    phase = "redacted" =>
        \A i \in 1..Len(text) : IsSkTokenAt(text, i) =>
            /\ ~Contains(result, SkTokenAt(text, i))
            /\ Contains(Sub("sk", text), SkRedacted)
            /\ Contains(result, SkRedacted) \/ Contains(result, REDACTED)

C7_Witness ==
    /\ phase = "redacted"
    /\ \E i \in 1..Len(text) : IsSkTokenAt(text, i)
    /\ Contains(result, SkRedacted)

(***************************************************************************)
(* Inputs of the card pattern: groups of 1, 3 or 4 digits, each gap either *)
(* empty or the text's separator (a space or a hyphen).                    *)
(***************************************************************************)
MaxGroups == 5

DigitGroup(len) == [k \in 1..len |-> IF k = 1 THEN "4" ELSE "1"]

RECURSIVE JoinGroups(_, _, _)
JoinGroups(lens, gaps, sep) ==
    IF Len(lens) = 1 THEN DigitGroup(lens[1])
    ELSE DigitGroup(Head(lens)) \o (IF Head(gaps) THEN sep ELSE <<>>)
            \o JoinGroups(Tail(lens), Tail(gaps), sep)

CardTexts ==
    UNION {{JoinGroups(lens, gaps, sep) :
                lens \in [1..n -> {1, 3, 4}],
                gaps \in [1..(n - 1) -> BOOLEAN],
                sep \in {<<" ">>, <<"-">>}} : n \in 1..MaxGroups}

InitCard ==
    /\ text \in CardTexts
    /\ result = <<>>
    /\ second = <<>>
    /\ phase = "input"
    /\ MainIdle

SpecCard == InitCard /\ [][Redact]_vars

DigitCount(s) == Cardinality({i \in 1..Len(s) : s[i] \in Digit})

\* The positions where a run of digits starts, and the length of the run.
DigitRunStarts(s) ==
    {i \in 1..Len(s) : s[i] \in Digit /\ (i = 1 \/ s[i - 1] \notin Digit)}

DigitRunLen(s, i) == RunEnd(s, i, Cls(Digit)) - i

\* 16 digits in groups of 4, the groups joined or one separator apart.
IsGroupedCard(s) ==
    /\ DigitCount(s) = 16
    /\ \A i \in DigitRunStarts(s) : DigitRunLen(s, i) % 4 = 0
    /\ \A i \in 1..(Len(s) - 1) : s[i] \in Digit \/ s[i + 1] \in Digit

IsContiguous(s) == \A i \in 1..Len(s) : s[i] \in Digit

\* C8 as stated: 16 digits in groups of 4 become CARD_REDACTED, and every 15-
\* and 17-digit sequence, contiguous or in separated groups, is left as it is.
C8_OddLengthsUnchanged ==
    phase = "redacted" =>
        /\ IsGroupedCard(text) => result = CardRedacted
        /\ DigitCount(text) \in {15, 17} => result = text

\* C8, amended: 16 digits in groups of 4 become CARD_REDACTED; every 15-digit
\* sequence and every contiguous 17-digit sequence is left as it is; 17 digits
\* in separated groups are left as they are or lose 16 of them to CARD_REDACTED
\* (four groups of 4 standing between word boundaries).
C8_CardLengths ==
    phase = "redacted" =>
        /\ IsGroupedCard(text) => result = CardRedacted
        /\ DigitCount(text) = 15 => result = text
        /\ (DigitCount(text) = 17 /\ IsContiguous(text)) => result = text
        /\ (DigitCount(text) = 17 /\ result # text)
              => Contains(result, CardRedacted) /\ DigitCount(result) = 1

C8_Witness ==
    /\ phase = "redacted"
    /\ DigitCount(text) = 17
    /\ IsContiguous(text)
    /\ result = text

====
